---------------------------- MODULE Spec2Model ----------------------------
(***************************************************************************)
(* Model of hyper-speed-grader: main.py (the batch entry point main(), its *)
(* helpers and process_student) and ai.py (ask_model's parsing of the      *)
(* oracle response).                                                       *)
(*                                                                         *)
(* main() is one sequential function.  After the loop over                 *)
(* process_student (main.py:258-262) the function body goes on with an     *)
(* older inline version of the same pipeline (main.py:263-372): it asks    *)
(* the operator for a task number, resolves the roster again and walks     *)
(* the students a second time, without the confirmation mode, without the  *)
(* dry-run flag and without a try/except around submission.edit.  Both     *)
(* parts run in every invocation, so both are modelled.                    *)
(*                                                                         *)
(* The LMS and the oracle are remote; what they return is an input.  The   *)
(* content of a submission is drawn when it is first fetched and kept from *)
(* then on (the only writer is this program).  Python values are written   *)
(* as strings: None is "<None>", a float is its repr ("4.0", "nan").       *)
(***************************************************************************)
EXTENDS Naturals, Sequences, FiniteSets, TLC

\* ------------------------------------------------------------------ bounds

\* Largest number of assignments the course may hold.
MaxAssign == 2

\* ------------------------------------------------------- values and inputs

NoneV == "<None>"

\* course.get_users(): the course participants, in the API's order.
Roster ==
  << [id |-> 1, name |-> "A", role |-> "student"],
     [id |-> 2, name |-> "B", role |-> "student"],
     [id |-> 3, name |-> "T", role |-> "teacher"] >>

UserIds == {Roster[k].id : k \in DOMAIN Roster}

Assignments == 1..MaxAssign

\* The names load_students_from_csv may read from the 'Student' column:
\* none, one, an unknown one, a teacher's, two in reverse roster order, one
\* twice, a known and an unknown one.
CsvInputs ==
  { << >>, << "A" >>, << "Ghost" >>, << "T" >>, << "B", "A" >>,
    << "A", "A" >>, << "A", "Ghost" >> }

\* args.students: not given, or the path of a CSV holding these names.
StudentsArgs ==
  {[given |-> FALSE, names |-> << >>]}
    \cup {[given |-> TRUE, names |-> s] : s \in CsvInputs}

ConfirmationModes == {"full", "none", "mistakes"}

\* A submission object of the LMS (canvasapi Submission), or its absence.
Sub(sc, gr, pg, eg, body) ==
  [read |-> TRUE, exists |-> TRUE, score |-> sc, grade |-> gr,
   posted_grade |-> pg, entered_grade |-> eg, body |-> body]

NoSubmission ==
  [read |-> TRUE, exists |-> FALSE, score |-> NoneV, grade |-> NoneV,
   posted_grade |-> NoneV, entered_grade |-> NoneV, body |-> NoneV]

\* A submission the run has not fetched yet.
Unread == [NoSubmission EXCEPT !.read = FALSE]

\* What assignment.get_submission may return on the first fetch.
SubmissionInputs ==
  { NoSubmission,
    Sub(NoneV, "", NoneV, "", "answer text"),
    Sub(NoneV, NoneV, NoneV, NoneV, ""),
    Sub("", "", "", "", NoneV),
    Sub("5", NoneV, NoneV, NoneV, "answer text"),
    Sub("", "5", NoneV, NoneV, NoneV),
    Sub(NoneV, NoneV, "5", NoneV, "answer text"),
    Sub("", "", "", "5", "") }

\* ------------------------------------------------------------ pure helpers

\* str.strip() on the operator inputs of the model.
Strip(s) ==
  CASE s = " E " -> "E"
    [] s = " 3 " -> "3"
    [] s = " " -> ""
    [] OTHER -> s

\* str.lower() on the operator inputs of the model.
Lower(s) ==
  CASE s = "A" -> "a"
    [] s = "E" -> "e"
    [] s = "M" -> "m"
    [] s = "Y" -> "y"
    [] OTHER -> s

ValueError == "<ValueError>"

\* float(s): the repr of the float, or ValueError.
Float(s) ==
  CASE s = "4" -> "4.0"
    [] s = "3" -> "3.0"
    [] s = "nan" -> "nan"
    [] OTHER -> ValueError

\* int(s) of prompt_task_num: the number, or ValueError (as 0 with ok FALSE).
Int(s) ==
  CASE s = "0" -> [ok |-> TRUE, num |-> 0]
    [] s = "1" -> [ok |-> TRUE, num |-> 1]
    [] s = "2" -> [ok |-> TRUE, num |-> 2]
    [] s = "3" -> [ok |-> TRUE, num |-> 3]
    [] s = "4" -> [ok |-> TRUE, num |-> 4]
    [] OTHER -> [ok |-> FALSE, num |-> 0]

GradeAttrs == << "score", "grade", "posted_grade", "entered_grade" >>

\* getattr(submission, attr, None)
GetAttr(submission, attr) ==
  CASE attr = "score" -> submission.score
    [] attr = "grade" -> submission.grade
    [] attr = "posted_grade" -> submission.posted_grade
    [] attr = "entered_grade" -> submission.entered_grade
    [] attr = "body" -> submission.body
    [] OTHER -> NoneV

RECURSIVE FirstGrade(_, _)
FirstGrade(submission, k) ==
  IF k > Len(GradeAttrs) THEN ""
  ELSE LET val == GetAttr(submission, GradeAttrs[k])
       IN  IF val # NoneV /\ val # "" THEN val
           ELSE FirstGrade(submission, k + 1)

\* A variant that looks at the score field only.
GradeOfScoreOnly(submission) ==
  IF ~submission.exists THEN ""
  ELSE IF submission.score # NoneV /\ submission.score # "" THEN submission.score
  ELSE ""

_grade_of(submission) ==
  IF ~submission.exists THEN "" ELSE FirstGrade(submission, 1)

\* A variant that skips an absent submission only.
EmptyOnlyWhenAbsent(submission) == ~submission.exists

\* process_student's "Skip empty submissions" condition.
IsEmptySubmission(submission) ==
  \/ ~submission.exists
  \/ submission.body = NoneV \/ submission.body = ""
  \/ Len(submission.body) = 0


\* --------------------------------------------------------- grading oracle

Absent == "<absent>"

\* What the chat completion may come back as: the call raising, a message
\* with no content, content that is not JSON, or a JSON object whose grade
\* and comment fields are present or absent.
OracleResponses ==
  {[kind |-> k, grade |-> Absent, comment |-> Absent] :
      k \in {"network_error", "no_content", "malformed"}}
    \cup {[kind |-> "json", grade |-> Absent, comment |-> "fix q2"],
          [kind |-> "json", grade |-> "abc", comment |-> Absent],
          [kind |-> "json", grade |-> "4", comment |-> Absent],
          [kind |-> "json", grade |-> "4", comment |-> ""],
          [kind |-> "json", grade |-> "4", comment |-> "fix q2"],
          [kind |-> "json", grade |-> "nan", comment |-> Absent]}

Raised(e) == [raised |-> TRUE, error |-> e, grade |-> NoneV, comment |-> NoneV]

\* A variant of the parsing that takes a missing or non-numeric grade as 0.
AskModelDefaultGrade(response) ==
  IF response.kind = "network_error" THEN Raised("APIError")
  ELSE IF response.kind = "no_content" THEN Raised("Model returned nothing")
  ELSE IF response.kind = "malformed" THEN Raised("JSONDecodeError")
  ELSE [raised |-> FALSE, error |-> "",
        grade |-> IF response.grade = Absent \/ Float(response.grade) = ValueError
                  THEN "0.0" ELSE Float(response.grade),
        comment |-> IF response.comment = Absent THEN "" ELSE response.comment]

\* ask_model from the response on: content None, json.loads, float(data["grade"]),
\* str(data.get("comment", "")).
ask_model(response) ==
  IF response.kind = "network_error" THEN Raised("APIError")
  ELSE IF response.kind = "no_content" THEN Raised("Model returned nothing")
  ELSE IF response.kind = "malformed" THEN Raised("JSONDecodeError")
  ELSE IF response.grade = Absent THEN Raised("KeyError")
  ELSE IF Float(response.grade) = ValueError THEN Raised("ValueError")
  ELSE [raised |-> FALSE, error |-> "",
        grade |-> Float(response.grade),
        comment |-> IF response.comment = Absent THEN "" ELSE response.comment]

NoResult == [raised |-> FALSE, error |-> "", grade |-> NoneV, comment |-> NoneV]

\* ------------------------------------------------------- roster resolution

\* user_map = {user.name: user for user in all_users}; user_map.get(name):
\* the last participant of that name, 0 for None.
UserMapGet(name) ==
  LET at == {k \in DOMAIN Roster : Roster[k].name = name}
  IN  IF at = {} THEN 0
      ELSE Roster[CHOOSE k \in at : \A j \in at : j <= k].id

RECURSIVE IdsOf(_)
IdsOf(users) ==
  IF users = << >> THEN << >> ELSE << Head(users).id >> \o IdsOf(Tail(users))

\* A variant that returns the requested participants in roster order, each
\* once.
MapRequestedRosterOrder(names) ==
  LET Requested(r) == \E k \in DOMAIN names : names[k] = r.name
  IN  IdsOf(SelectSeq(Roster, Requested))

RECURSIVE MapRequested(_)
MapRequested(names) ==
  IF names = << >> THEN << >>
  ELSE LET user == UserMapGet(Head(names))
       IN  IF user = 0 THEN MapRequested(Tail(names))
           ELSE << user >> \o MapRequested(Tail(names))

\* Number of "not found in Canvas" warnings printed for the names.
RECURSIVE NotFound(_)
NotFound(names) ==
  IF names = << >> THEN 0
  ELSE (IF UserMapGet(Head(names)) = 0 THEN 1 ELSE 0) + NotFound(Tail(names))

IsStudent(user) == user.role = "student"

\* course.get_users(enrollment_type=["student"])
GetStudents == IdsOf(SelectSeq(Roster, IsStudent))

build_students_to_process(args_students) ==
  IF args_students.given THEN MapRequested(args_students.names)
  ELSE GetStudents

\* ------------------------------------------------------------------- state

VARIABLES
  mode,                \* args.confirmation
  dry_run,             \* args.dry_run
  task_num,            \* args.task_num
  students_arg,        \* args.students and the names of the CSV
  n_assignments,       \* len(list(course.get_assignments()))
  lms,                 \* the LMS: lms[assignment][user] is the submission
  lms0,                \* each submission as it was when first fetched
  pc,                  \* where main() stands
  halt,                \* why main() ended ("" while it runs)
  out,                 \* the last line printed
  assignment,          \* the selected assignment (1-based), 0 before
  students_to_process, \* the resolved list, as user ids
  warnings,            \* "not found" warnings printed so far
  idx,                 \* position of the for loop in students_to_process
  grade,               \* the pending grade
  comment,             \* the pending comment
  result,              \* what ask_model returned for the current student
  prompts,             \* the inputs requested while on the current student
  oracle_calls,        \* ask_model calls per assignment and user
  writes,              \* submission.edit calls per assignment and user
  outcome,             \* how process_student ended for each user
  last_write,          \* the submission.edit call of the step just taken
  last_response        \* the oracle response of the step just taken

vars ==
  << mode, dry_run, task_num, students_arg, n_assignments, lms, lms0, pc,
     halt, out, assignment, students_to_process, warnings, idx, grade,
     comment, result, prompts, oracle_calls, writes, outcome, last_write,
     last_response >>

args == << mode, dry_run, task_num, students_arg, n_assignments >>

locals == << grade, comment, result, prompts >>

\* No oracle call was made in the step just taken.
NoResponse == [kind |-> "none", grade |-> Absent, comment |-> Absent]

NoWrite ==
  [any |-> FALSE, assignment |-> 0, user |-> 0, posted_grade |-> NoneV,
   comment |-> NoneV, oracle_grade |-> NoneV, oracle_comment |-> NoneV,
   prompts |-> {}]

Init ==
  /\ mode \in ConfirmationModes
  /\ dry_run \in BOOLEAN
  /\ task_num \in 0..(MaxAssign + 1)
  /\ students_arg \in StudentsArgs
  /\ n_assignments \in 0..MaxAssign
  /\ lms = [a \in Assignments |-> [u \in UserIds |-> Unread]]
  /\ lms0 = [a \in Assignments |-> [u \in UserIds |-> Unread]]
  /\ pc = "load"
  /\ halt = ""
  /\ out = ""
  /\ assignment = 0
  /\ students_to_process = << >>
  /\ warnings = 0
  /\ idx = 0
  /\ grade = NoneV
  /\ comment = NoneV
  /\ result = NoResult
  /\ prompts = {}
  /\ oracle_calls = [a \in Assignments |-> [u \in UserIds |-> 0]]
  /\ writes = [a \in Assignments |-> [u \in UserIds |-> 0]]
  /\ outcome = [u \in UserIds |-> "none"]
  /\ last_write = NoWrite
  /\ last_response = NoResponse

\* ---------------------------------------------------------- writing grades

\* What a successful submission.edit leaves in the LMS: the posted grade is
\* the submission's recorded grade from then on.
Edited(submission, payload) ==
  [submission EXCEPT !.score = payload.posted_grade,
                     !.grade = payload.posted_grade,
                     !.entered_grade = payload.posted_grade]

Payload(g, c) ==
  [posted_grade |-> g, comment |-> IF c # "" THEN c ELSE NoneV]

WriteRecord(a, u, payload) ==
  [any |-> TRUE, assignment |-> a, user |-> u,
   posted_grade |-> payload.posted_grade, comment |-> payload.comment,
   oracle_grade |-> result.grade, oracle_comment |-> result.comment,
   prompts |-> prompts]

\* apply_update: the dry-run report, or submission.edit inside try/except.
apply_update(a, u, g, c) ==
  IF dry_run
  THEN /\ out' = "DRY-RUN: would update"
       /\ last_write' = NoWrite
       /\ last_response' = NoResponse
       /\ UNCHANGED << lms, writes >>
  ELSE /\ writes' = [writes EXCEPT ![a][u] = @ + 1]
       /\ last_write' = WriteRecord(a, u, Payload(g, c))
       /\ last_response' = NoResponse
       /\ \E ok \in BOOLEAN :
            IF ok
            THEN /\ lms' = [lms EXCEPT ![a][u] = Edited(@, Payload(g, c))]
                 /\ out' = "Updated successfully"
            ELSE /\ lms' = lms
                 /\ out' = "ERROR updating submission"

\* ------------------------------------------------------------ main, part 1

Halt(why) ==
  /\ pc' = "halted"
  /\ halt' = why

\* load_prompt_task: both files read, or exit code 2.
LoadPromptTask ==
  /\ pc = "load"
  /\ \E files_ok \in BOOLEAN :
       IF files_ok
       THEN /\ pc' = "choose"
            /\ UNCHANGED << halt, out >>
       ELSE /\ Halt("exit 2: error loading files")
            /\ out' = "Error loading files"
  /\ UNCHANGED << args, lms, lms0, assignment, students_to_process, warnings,
                  idx, locals, oracle_calls, writes, outcome >>
  /\ last_write' = NoWrite
  /\ last_response' = NoResponse

\* A variant of the range test that has no lower limit.
TaskNumAboveCount(num, count) == num > count

\* choose_assignment's range test (main.py:102).
InvalidTaskNum(num, count) == num < 1 \/ num > count

\* assignments[task_num - 1] on a Python list of count assignments, which are
\* named by their 1-based position: index -1 is the last element.
AssignmentAt(count, num) == IF num = 0 THEN count ELSE num

\* choose_assignment(course, args.task_num)
ChooseAssignment ==
  /\ pc = "choose"
  /\ IF n_assignments = 0
     THEN /\ Halt("SystemExit: no assignments found in course")
          /\ UNCHANGED << assignment, out >>
     ELSE IF InvalidTaskNum(task_num, n_assignments)
     THEN /\ Halt("SystemExit: invalid task_num")
          /\ UNCHANGED << assignment, out >>
     ELSE /\ assignment' = AssignmentAt(n_assignments, task_num)
          /\ out' = "Assignment"
          /\ pc' = "build"
          /\ UNCHANGED halt
  /\ UNCHANGED << args, lms, lms0, students_to_process, warnings, idx, locals,
                  oracle_calls, writes, outcome >>
  /\ last_write' = NoWrite
  /\ last_response' = NoResponse

\* build_students_to_process(course, args)
BuildStudents ==
  /\ pc = "build"
  /\ \E csv_ok \in (IF students_arg.given THEN BOOLEAN ELSE {TRUE}) :
       IF csv_ok
       THEN /\ students_to_process' = build_students_to_process(students_arg)
            /\ warnings' = warnings
                 + (IF students_arg.given THEN NotFound(students_arg.names) ELSE 0)
            /\ idx' = 1
            /\ pc' = "loop"
            /\ out' = "students resolved"
            /\ UNCHANGED halt
       ELSE /\ Halt("exit 2: error reading students CSV")
            /\ out' = "Error reading students CSV"
            /\ UNCHANGED << students_to_process, warnings, idx >>
  /\ UNCHANGED << args, lms, lms0, assignment, locals, oracle_calls, writes,
                  outcome >>
  /\ last_write' = NoWrite
  /\ last_response' = NoResponse

user == students_to_process[idx]

\* assignment.get_submission(user.id): the stored submission, drawn on the
\* first fetch.
Fetched(a, u) == IF lms[a][u].read THEN {lms[a][u]} ELSE SubmissionInputs

Fetch(a, u, submission) ==
  /\ lms' = [lms EXCEPT ![a][u] = submission]
  /\ lms0' = IF lms[a][u].read THEN lms0 ELSE [lms0 EXCEPT ![a][u] = submission]

\* process_student returns; the for loop of main() moves on.
Return ==
  /\ pc' = "loop"
  /\ idx' = idx + 1
  /\ grade' = NoneV
  /\ comment' = NoneV
  /\ result' = NoResult
  /\ prompts' = {}

\* process_student up to the oracle call (main.py:156-174).
ProcessStudent ==
  /\ pc = "loop"
  /\ idx <= Len(students_to_process)
  /\ \E submission \in Fetched(assignment, user) :
       /\ Fetch(assignment, user, submission)
       /\ IF _grade_of(submission) # ""
          THEN /\ out' = "SKIP: Already graded"
               /\ outcome' = [outcome EXCEPT ![user] = "skip_graded"]
               /\ Return
          ELSE IF IsEmptySubmission(submission)
          THEN /\ out' = "SKIP: Empty submission"
               /\ outcome' = [outcome EXCEPT ![user] = "skip_empty"]
               /\ Return
          ELSE /\ out' = "Asking AI model..."
               /\ pc' = "ask"
               /\ outcome' = [outcome EXCEPT ![user] = "none"]
               /\ UNCHANGED << idx, locals >>
  /\ UNCHANGED << args, halt, assignment, students_to_process, warnings,
                  oracle_calls, writes >>
  /\ last_write' = NoWrite
  /\ last_response' = NoResponse

\* The decision "whether to prompt the user" (main.py:186-193).
ShouldPrompt(confirmation_mode, c) ==
  IF confirmation_mode = "full" THEN TRUE
  ELSE IF confirmation_mode = "mistakes" /\ c # "" THEN TRUE
  ELSE FALSE

\* process_student's oracle call (main.py:176-184).  An exception of
\* ask_model is caught nowhere: it ends main().
AskModel ==
  /\ pc = "ask"
  /\ oracle_calls' = [oracle_calls EXCEPT ![assignment][user] = @ + 1]
  /\ \E response \in OracleResponses :
       LET r == ask_model(response)
       IN  /\ last_response' = response
           /\ IF r.raised
              THEN /\ Halt("exception in ask_model")
                   /\ out' = r.error
                   /\ outcome' = [outcome EXCEPT ![user] = "oracle_error"]
                   /\ UNCHANGED locals
              ELSE /\ result' = r
                   /\ grade' = r.grade
                   /\ comment' = r.comment
                   /\ pc' = "decide"
                   /\ out' = "Grade, Comment"
                   /\ UNCHANGED << halt, prompts, outcome >>
  /\ UNCHANGED << args, lms, lms0, assignment, students_to_process, warnings,
                  idx, writes >>
  /\ last_write' = NoWrite

\* process_student: auto-apply, or the first display of the menu
\* (main.py:186-203).
Decide ==
  /\ pc = "decide"
  /\ IF ~ShouldPrompt(mode, comment)
     THEN /\ apply_update(assignment, user, grade, comment)
          /\ outcome' = [outcome EXCEPT ![user] = "auto"]
          /\ Return
     ELSE /\ prompts' = {"menu"}
          /\ pc' = "menu"
          /\ out' = "[A] Accept / [E] Edit / [M] Manual"
          /\ UNCHANGED << idx, grade, comment, result, lms, writes, outcome >>
          /\ last_write' = NoWrite
          /\ last_response' = NoResponse
  /\ UNCHANGED << args, halt, lms0, assignment, students_to_process, warnings,
                  oracle_calls >>

\* What the operator may type at the menu, at the grade prompt, at the
\* comment prompt and at "Continue (Y/n)?".
MenuInputs == {"a", " E ", "M", "x"}

GradeInputs == {"", " 3 ", "abc", "nan"}

CommentInputs == {"", ":q", "see me"}

ContinueInputs == {"", "Y", "n"}

\* The menu: "Choose action" (main.py:201-207, 232-234, 242-243).
MenuChoice ==
  /\ pc = "menu"
  /\ \E typed \in MenuInputs :
       LET choice == Lower(Strip(typed))
       IN  IF choice = "a"
           THEN /\ apply_update(assignment, user, grade, comment)
                /\ outcome' = [outcome EXCEPT ![user] = "accept"]
                /\ Return
           ELSE IF choice = "e"
           THEN /\ pc' = "grade_in"
                /\ prompts' = prompts \cup {"grade"}
                /\ out' = "Enter grade"
                /\ UNCHANGED << idx, grade, comment, result, lms, writes, outcome >>
                /\ last_write' = NoWrite
                /\ last_response' = NoResponse
           ELSE IF choice = "m"
           THEN /\ pc' = "continue"
                /\ prompts' = prompts \cup {"continue"}
                /\ out' = "Manual review link"
                /\ UNCHANGED << idx, grade, comment, result, lms, writes, outcome >>
                /\ last_write' = NoWrite
                /\ last_response' = NoResponse
           ELSE /\ out' = "Unknown choice"
                /\ UNCHANGED << pc, idx, locals, lms, writes,
                                outcome >>
                /\ last_write' = NoWrite
                /\ last_response' = NoResponse
  /\ UNCHANGED << args, halt, lms0, assignment, students_to_process, warnings,
                  oracle_calls >>

\* Edit: the grade override prompt (main.py:209-217).
GradeInput ==
  /\ pc = "grade_in"
  /\ \E typed \in GradeInputs :
       LET g_in == Strip(typed)
       IN  IF g_in = ""
           THEN /\ pc' = "comment_in"
                /\ out' = "Enter comment"
                /\ prompts' = prompts \cup {"comment"}
                /\ UNCHANGED grade
           ELSE IF Float(g_in) # ValueError
           THEN /\ grade' = Float(g_in)
                /\ pc' = "comment_in"
                /\ out' = "Enter comment"
                /\ prompts' = prompts \cup {"comment"}
           ELSE /\ out' = "Invalid grade"
                /\ UNCHANGED << pc, grade, prompts >>
  /\ UNCHANGED << args, halt, lms, lms0, assignment, students_to_process,
                  warnings, idx, comment, result, oracle_calls, writes,
                  outcome >>
  /\ last_write' = NoWrite
  /\ last_response' = NoResponse

\* The comment after the override prompt (main.py:220-228).
CommentOverride(c_in, c) ==
  IF c_in = "" THEN c
  ELSE IF c_in = ":q" THEN ""
  ELSE c_in

\* Edit: the comment override prompt, then the write (main.py:220-231).
CommentInput ==
  /\ pc = "comment_in"
  /\ \E typed \in CommentInputs :
       apply_update(assignment, user, grade, CommentOverride(Strip(typed), comment))
  /\ outcome' = [outcome EXCEPT ![user] = "edit"]
  /\ Return
  /\ UNCHANGED << args, halt, lms0, assignment, students_to_process, warnings,
                  oracle_calls >>

\* A variant of the Manual dialogue that drops the pending result when the
\* operator declines.
ManualContinueForgets ==
  /\ pc = "continue"
  /\ \E typed \in ContinueInputs :
       LET cont == Lower(Strip(typed))
       IN  IF cont = "" \/ cont = "y"
           THEN /\ out' = "Skipping update for manual grading"
                /\ outcome' = [outcome EXCEPT ![user] = "manual"]
                /\ Return
           ELSE /\ pc' = "menu"
                /\ out' = "[A] Accept / [E] Edit / [M] Manual"
                /\ grade' = NoneV
                /\ comment' = NoneV
                /\ UNCHANGED << idx, result, prompts, outcome >>
  /\ UNCHANGED << args, halt, lms, lms0, assignment, students_to_process,
                  warnings, oracle_calls, writes >>
  /\ last_write' = NoWrite
  /\ last_response' = NoResponse

\* Manual: "Continue (Y/n)?" (main.py:234-241).
ManualContinue ==
  /\ pc = "continue"
  /\ \E typed \in ContinueInputs :
       LET cont == Lower(Strip(typed))
       IN  IF cont = "" \/ cont = "y"
           THEN /\ out' = "Skipping update for manual grading"
                /\ outcome' = [outcome EXCEPT ![user] = "manual"]
                /\ Return
           ELSE /\ pc' = "menu"
                /\ out' = "[A] Accept / [E] Edit / [M] Manual"
                /\ UNCHANGED << idx, locals, outcome >>
  /\ UNCHANGED << args, halt, lms, lms0, assignment, students_to_process,
                  warnings, oracle_calls, writes >>
  /\ last_write' = NoWrite
  /\ last_response' = NoResponse

\* The for loop over process_student is through: "Assessment complete!",
\* then init() and course.get_assignments() again (main.py:261-265).
FirstLoopDone ==
  /\ pc = "loop"
  /\ idx > Len(students_to_process)
  /\ pc' = "task_prompt"
  /\ out' = "Assessment complete!"
  /\ UNCHANGED << args, halt, lms, lms0, assignment, students_to_process,
                  warnings, idx, locals, oracle_calls, writes, outcome >>
  /\ last_write' = NoWrite
  /\ last_response' = NoResponse

\* ------------------------------------------------------------ main, part 2
\* The rest of main()'s body (main.py:263-372).

TaskInputs == {"", "abc", "0", "1", "2", "3"}

\* prompt_task_num(len(assignments)) and the selection that follows it
\* (main.py:267-274; prompt_task_num, main.py:23-36).
PromptTaskNum ==
  /\ pc = "task_prompt"
  /\ \E typed \in TaskInputs :
       LET s == Strip(typed)
       IN  IF s = ""
           THEN /\ Halt("exit 2: no task number provided")
                /\ out' = "No task number provided. Exiting."
                /\ UNCHANGED assignment
           ELSE IF ~Int(s).ok
           THEN /\ out' = "Please enter an integer."
                /\ UNCHANGED << pc, halt, assignment >>
           ELSE IF 1 <= Int(s).num /\ Int(s).num <= n_assignments
           THEN /\ assignment' = Int(s).num
                /\ pc' = "tail_build"
                /\ out' = "Assignment"
                /\ UNCHANGED halt
           ELSE /\ out' = "Invalid task number."
                /\ UNCHANGED << pc, halt, assignment >>
  /\ UNCHANGED << args, lms, lms0, students_to_process, warnings, idx, locals,
                  oracle_calls, writes, outcome >>
  /\ last_write' = NoWrite
  /\ last_response' = NoResponse

\* The roster is resolved a second time (main.py:276-300).
TailBuildStudents ==
  /\ pc = "tail_build"
  /\ \E csv_ok \in (IF students_arg.given THEN BOOLEAN ELSE {TRUE}) :
       IF csv_ok
       THEN /\ students_to_process' =
                 (IF students_arg.given THEN MapRequested(students_arg.names)
                  ELSE GetStudents)
            /\ warnings' = warnings
                 + (IF students_arg.given THEN NotFound(students_arg.names) ELSE 0)
            /\ idx' = 1
            /\ pc' = "tail_loop"
            /\ out' = "students resolved"
            /\ UNCHANGED halt
       ELSE /\ Halt("exit 2: error reading students CSV")
            /\ out' = "Error reading students CSV"
            /\ UNCHANGED << students_to_process, warnings, idx >>
  /\ UNCHANGED << args, lms, lms0, assignment, locals, oracle_calls, writes,
                  outcome >>
  /\ last_write' = NoWrite
  /\ last_response' = NoResponse

\* The second for loop takes its next student.  grade, comment and result
\* keep their values in Python; each is assigned again before it is read.
TailNext ==
  /\ pc' = "tail_loop"
  /\ idx' = idx + 1
  /\ grade' = NoneV
  /\ comment' = NoneV
  /\ result' = NoResult
  /\ prompts' = {}

\* "Skip empty submissions" of the second loop (main.py:317).
TailIsEmptySubmission(submission) ==
  \/ ~submission.exists
  \/ submission.body = NoneV \/ submission.body = ""
  \/ Len(submission.body) = 0

\* The second loop up to the oracle call (main.py:303-322).
TailProcessStudent ==
  /\ pc = "tail_loop"
  /\ idx <= Len(students_to_process)
  /\ \E submission \in Fetched(assignment, user) :
       /\ Fetch(assignment, user, submission)
       /\ IF _grade_of(submission) # ""
          THEN /\ out' = "SKIP: Already graded"
               /\ TailNext
          ELSE IF TailIsEmptySubmission(submission)
          THEN /\ out' = "SKIP: Empty submission"
               /\ TailNext
          ELSE /\ out' = "Asking AI model..."
               /\ pc' = "tail_ask"
               /\ UNCHANGED << idx, locals >>
  /\ UNCHANGED << args, halt, assignment, students_to_process, warnings,
                  oracle_calls, writes, outcome >>
  /\ last_write' = NoWrite
  /\ last_response' = NoResponse

\* The oracle call of the second loop (main.py:324-332).
TailAskModel ==
  /\ pc = "tail_ask"
  /\ oracle_calls' = [oracle_calls EXCEPT ![assignment][user] = @ + 1]
  /\ \E response \in OracleResponses :
       LET r == ask_model(response)
       IN  /\ last_response' = response
           /\ IF r.raised
              THEN /\ Halt("exception in ask_model")
                   /\ out' = r.error
                   /\ UNCHANGED locals
              ELSE /\ result' = r
                   /\ grade' = r.grade
                   /\ comment' = r.comment
                   /\ pc' = "tail_decide"
                   /\ out' = "Grade, Comment"
                   /\ UNCHANGED << halt, prompts >>
  /\ UNCHANGED << args, lms, lms0, assignment, students_to_process, warnings,
                  idx, writes, outcome >>
  /\ last_write' = NoWrite

\* submission.edit of the second loop (main.py:359-369): not under dry_run,
\* not in a try/except.
TailEdit(a, u, g, c) ==
  /\ writes' = [writes EXCEPT ![a][u] = @ + 1]
  /\ last_write' = WriteRecord(a, u, Payload(g, c))
  /\ last_response' = NoResponse
  /\ \E ok \in BOOLEAN :
       IF ok
       THEN /\ lms' = [lms EXCEPT ![a][u] = Edited(@, Payload(g, c))]
            /\ out' = "Updated successfully"
            /\ TailNext
            /\ UNCHANGED halt
       ELSE /\ lms' = lms
            /\ out' = "exception in submission.edit"
            /\ Halt("exception in submission.edit")
            /\ UNCHANGED << idx, locals >>

\* "If model provided a comment, require an interactive
\* confirmation/override", else the write (main.py:334-339, 359-369).
TailDecide ==
  /\ pc = "tail_decide"
  /\ IF comment # ""
     THEN /\ pc' = "tail_grade_in"
          /\ prompts' = {"grade"}
          /\ out' = "Enter grade"
          /\ UNCHANGED << halt, idx, grade, comment, result, lms, writes >>
          /\ last_write' = NoWrite
          /\ last_response' = NoResponse
     ELSE TailEdit(assignment, user, grade, comment)
  /\ UNCHANGED << args, lms0, assignment, students_to_process, warnings,
                  oracle_calls, outcome >>

\* What the operator may type at the grade prompt of the second loop: blank,
\* a number, a text that is not one ("nan" is offered at process_student's
\* prompt, which parses it the same way).
TailGradeInputs == {"", " 3 ", "abc"}

\* The grade override prompt of the second loop (main.py:338-346).
TailGradeInput ==
  /\ pc = "tail_grade_in"
  /\ \E typed \in TailGradeInputs :
       LET g_in == Strip(typed)
       IN  IF g_in = ""
           THEN /\ pc' = "tail_comment_in"
                /\ out' = "Enter comment"
                /\ prompts' = prompts \cup {"comment"}
                /\ UNCHANGED grade
           ELSE IF Float(g_in) # ValueError
           THEN /\ grade' = Float(g_in)
                /\ pc' = "tail_comment_in"
                /\ out' = "Enter comment"
                /\ prompts' = prompts \cup {"comment"}
           ELSE /\ out' = "Invalid grade"
                /\ UNCHANGED << pc, grade, prompts >>
  /\ UNCHANGED << args, halt, lms, lms0, assignment, students_to_process,
                  warnings, idx, comment, result, oracle_calls, writes,
                  outcome >>
  /\ last_write' = NoWrite
  /\ last_response' = NoResponse

\* The comment override prompt of the second loop, then the write
\* (main.py:349-369).
TailCommentInput ==
  /\ pc = "tail_comment_in"
  /\ \E typed \in CommentInputs :
       LET c_in == Strip(typed)
           c == IF c_in = "" THEN comment ELSE IF c_in = ":q" THEN "" ELSE c_in
       IN  TailEdit(assignment, user, grade, c)
  /\ UNCHANGED << args, lms0, assignment, students_to_process, warnings,
                  oracle_calls, outcome >>

\* The second loop is through: "Assessment complete!" and main() returns.
TailLoopDone ==
  /\ pc = "tail_loop"
  /\ idx > Len(students_to_process)
  /\ Halt("complete")
  /\ out' = "Assessment complete!"
  /\ UNCHANGED << args, lms, lms0, assignment, students_to_process, warnings,
                  idx, locals, oracle_calls, writes, outcome >>
  /\ last_write' = NoWrite
  /\ last_response' = NoResponse

Next ==
  \/ LoadPromptTask
  \/ ChooseAssignment
  \/ BuildStudents
  \/ ProcessStudent
  \/ AskModel
  \/ Decide
  \/ MenuChoice
  \/ GradeInput
  \/ CommentInput
  \/ ManualContinue
  \/ FirstLoopDone
  \/ PromptTaskNum
  \/ TailBuildStudents
  \/ TailProcessStudent
  \/ TailAskModel
  \/ TailDecide
  \/ TailGradeInput
  \/ TailCommentInput
  \/ TailLoopDone

Spec == Init /\ [][Next]_vars

\* ------------------------------------------------------------------ claims

\* u stands exactly once in the resolved list.
ListedOnce(u) ==
  Cardinality({k \in DOMAIN students_to_process : students_to_process[k] = u}) = 1

\* The submission carries a non-empty value in one of the four grade fields.
HasRecordedGrade(submission) ==
  /\ submission.exists
  /\ \/ submission.score \notin {NoneV, ""}
     \/ submission.grade \notin {NoneV, ""}
     \/ submission.posted_grade \notin {NoneV, ""}
     \/ submission.entered_grade \notin {NoneV, ""}

\* The submission is absent, or its body is absent or empty.
HasNoBody(submission) ==
  ~submission.exists \/ submission.body \in {NoneV, ""}

\* The places where main() waits for the operator.
InputPcs ==
  {"menu", "grade_in", "comment_in", "continue", "task_prompt",
   "tail_grade_in", "tail_comment_in"}

\* C1 (idempotent skip): a student whose submission, as fetched, has a
\* non-empty score, grade, posted_grade or entered_grade gets no oracle call
\* and no LMS write at any point of the run, in every confirmation mode.
C1_IdempotentSkip ==
  \A a \in Assignments : \A u \in UserIds :
    (lms0[a][u].read /\ HasRecordedGrade(lms0[a][u]))
      => (oracle_calls[a][u] = 0 /\ writes[a][u] = 0)

\* C1 witness: the run went through both loops on the same assignment and a
\* student graded only in the last of the four fields was skipped.
C1_Witness ==
  /\ halt = "complete"
  /\ assignment = task_num
  /\ \E u \in UserIds :
       /\ outcome[u] = "skip_graded"
       /\ lms0[assignment][u].entered_grade = "5"
       /\ lms0[assignment][u].score = ""

\* The students of the course.
StudentIds == {Roster[k].id : k \in {j \in DOMAIN Roster : IsStudent(Roster[j])}}

\* submission.edit calls made for u's submission to the assignment the run
\* was started for (args.task_num).
RunWrites(u) == writes[task_num][u]

\* C2 (exactly one write): for a student listed once, the run makes at most
\* one LMS write attempt; none when process_student skipped the student or
\* the operator deferred to Manual; exactly one after Accept, Edit or
\* auto-apply (outside dry-run, where nothing is sent).  Stated for the
\* writes to the assignment the run was started for.
C2_ExactlyOneWrite ==
  assignment # 0 =>
    \A u \in StudentIds :
      ListedOnce(u) =>
        /\ RunWrites(u) <= 1
        /\ outcome[u] \in {"manual", "skip_graded", "skip_empty"}
             => RunWrites(u) = 0
        /\ (outcome[u] \in {"auto", "accept", "edit"} /\ ~dry_run)
             => RunWrites(u) = 1

\* C3 (Manual defer makes no write): once the operator chose Manual for a
\* student and confirmed, no LMS write is made for that student in the run
\* (stated for the assignment the run was started for).
C3_ManualDeferNoWrite ==
  assignment # 0 =>
    \A u \in StudentIds :
      (ListedOnce(u) /\ outcome[u] = "manual") => RunWrites(u) = 0

\* C4 (dry-run): with --dry-run no submission.edit call is made for any
\* student in any state of the run (stated for the assignment the run was
\* started for).
C4_DryRunNoWrite ==
  (dry_run /\ assignment # 0) => \A u \in StudentIds : RunWrites(u) = 0

\* C5 (oracle errors are per student): the run never ends on an oracle error
\* with a later student of the list left unprocessed (its submission never
\* fetched).
C5_OracleErrorIsolated ==
  (pc = "halted" /\ halt = "exception in ask_model")
    => \A j \in (idx + 1)..Len(students_to_process) :
         lms[assignment][students_to_process[j]].read

\* C6 (human oversight in mode full): under mode full a student for whom an
\* LMS write was made is a student for whom the operator chose Accept or
\* Edit (stated for the assignment the run was started for).
C6_FullModeOversight ==
  (mode = "full" /\ assignment # 0) =>
    \A u \in StudentIds :
      (ListedOnce(u) /\ RunWrites(u) > 0) => outcome[u] \in {"accept", "edit"}

\* A write to a student's submission to the assignment the run was started
\* for.
RunWrite ==
  /\ last_write.any
  /\ last_write.assignment = task_num
  /\ last_write.user \in StudentIds

\* C7 (auto-apply correctness): under mode none every write carries the
\* oracle's grade unaltered, and the oracle's comment when it is non-empty,
\* no comment when it is empty.
C7_AutoApplyPayload ==
  (mode = "none" /\ RunWrite) =>
    /\ last_write.posted_grade = last_write.oracle_grade
    /\ last_write.comment =
         (IF last_write.oracle_comment # "" THEN last_write.oracle_comment
          ELSE NoneV)

\* C8 (mistakes-mode branching): under mode mistakes a result with an empty
\* comment is written with no operator prompt for that student and never
\* reaches a prompt, and a result with a non-empty comment is written only
\* after the Accept/Edit/Manual menu was shown for it.
C8_MistakesBranching ==
  mode = "mistakes" =>
    /\ RunWrite =>
         IF last_write.oracle_comment = "" THEN last_write.prompts = {}
         ELSE "menu" \in last_write.prompts
    /\ (pc \in InputPcs \ {"task_prompt"}) => result.comment # ""

\* C9 (unattended mode none): under mode none the run never waits for
\* operator input.
C9_UnattendedNone == mode = "none" => pc \notin InputPcs

\* C10 (empty-submission skip): a student with no recorded grade whose
\* submission is absent, or has an absent or empty body, gets no oracle call
\* and no LMS write, in every confirmation mode.
C10_EmptySubmissionSkip ==
  \A a \in Assignments : \A u \in UserIds :
    (lms0[a][u].read /\ ~HasRecordedGrade(lms0[a][u]) /\ HasNoBody(lms0[a][u]))
      => (oracle_calls[a][u] = 0 /\ writes[a][u] = 0)

\* C10 witness: the run went through both loops on the same assignment and
\* a student whose submission exists with an empty body was skipped.
C10_Witness ==
  /\ halt = "complete"
  /\ assignment = task_num
  /\ \E u \in UserIds :
       /\ outcome[u] = "skip_empty"
       /\ lms0[assignment][u].exists
       /\ lms0[assignment][u].body = ""

\* Some submission was fetched, some oracle call or some LMS write was made.
Touched ==
  \E a \in Assignments : \E u \in UserIds :
    lms[a][u].read \/ oracle_calls[a][u] > 0 \/ writes[a][u] > 0

\* Where main() stands between choose_assignment's return and the end of the
\* loop over process_student.
FirstLoopPcs ==
  {"build", "loop", "ask", "decide", "menu", "grade_in", "comment_in", "continue"}

\* C11 (out-of-range task index is fatal before processing): with
\* task_num < 1, task_num > count or an empty assignment list the run never
\* gets past choose_assignment, ends there with an error, and no submission
\* is fetched, no oracle call and no write is made; with 1 <= task_num <= count
\* the assignment choose_assignment returns is the task_num-th of the list.
C11_OutOfRangeFatal ==
  /\ (n_assignments = 0 \/ task_num < 1 \/ task_num > n_assignments)
       => /\ pc \in {"load", "choose", "halted"}
          /\ ~Touched
          /\ pc = "halted"
               => halt \in {"exit 2: error loading files",
                            "SystemExit: no assignments found in course",
                            "SystemExit: invalid task_num"}
  /\ pc \in FirstLoopPcs
       => (1 <= task_num /\ task_num <= n_assignments /\ assignment = task_num)

\* C11 witness: task_num = count + 1 on a course with assignments, and the
\* run has ended in choose_assignment.
C11_Witness ==
  /\ pc = "halted"
  /\ halt = "SystemExit: invalid task_num"
  /\ n_assignments > 0
  /\ task_num = n_assignments + 1

\* The name stands in the roster as some participant's display name.
InRoster(name) == \E k \in DOMAIN Roster : Roster[k].name = name

\* The display name of the participant with this id.
NameOf(id) == Roster[CHOOSE k \in DOMAIN Roster : Roster[k].id = id].name

\* C12 (explicit roster resolution): given a name list,
\* build_students_to_process returns, in the order of the list, one entry
\* for each occurrence of a name that is a roster display name, leaves out
\* every other name with exactly one warning per occurrence, and the only
\* way it ends the run is a CSV file that cannot be read.
C12_ExplicitRosterResolution ==
  /\ (students_arg.given /\ pc \in FirstLoopPcs \ {"build"}) =>
       LET matched == SelectSeq(students_arg.names, InRoster)
       IN  /\ Len(students_to_process) = Len(matched)
           /\ \A k \in DOMAIN matched : NameOf(students_to_process[k]) = matched[k]
           /\ warnings + Len(matched) = Len(students_arg.names)
  /\ (pc = "halted" /\ assignment # 0 /\ idx = 0)
       => halt = "exit 2: error reading students CSV"

\* C12 witness: the list ["A", "Ghost"] was resolved to [A] with one warning,
\* and the loop is about to take A.
C12_Witness ==
  /\ pc = "loop"
  /\ idx = 1
  /\ students_arg.given
  /\ students_arg.names = << "A", "Ghost" >>
  /\ students_to_process = << 1 >>
  /\ warnings = 1

\* C13 (persistence errors are per student): a failed LMS write leaves no
\* grade recorded for that student, so that a later run takes the student
\* again, and it never ends the run: main() goes on with the next student
\* (stated for the writes to the assignment the run was started for).
C13_PersistenceErrorIsolated ==
  /\ (last_write.any
        /\ out \in {"ERROR updating submission", "exception in submission.edit"})
       => /\ lms[last_write.assignment][last_write.user]
               = lms0[last_write.assignment][last_write.user]
          /\ ~HasRecordedGrade(lms[last_write.assignment][last_write.user])
  /\ (pc = "halted" /\ RunWrite) => halt # "exception in submission.edit"

\* A closing line that reports the three counts.
SummaryLine(applied, skipped, failed) ==
  ToString(applied) \o " applied / " \o ToString(skipped) \o " skipped / "
    \o ToString(failed) \o " failed"

\* A loop over the resolved list has just ended and main() has printed its
\* closing line.
LoopThrough ==
  \/ pc = "task_prompt"
       /\ out \notin {"Please enter an integer.", "Invalid task number."}
  \/ pc = "halted" /\ halt = "complete"

\* C14 (final summary): when the loop over the resolved list is through, the
\* closing report gives counts of applied, skipped and failed students that
\* sum to the length of the list.
C14_FinalSummary ==
  LoopThrough =>
    \E applied, skipped, failed \in 0..Len(students_to_process) :
      /\ applied + skipped + failed = Len(students_to_process)
      /\ out = SummaryLine(applied, skipped, failed)

\* The write was made at the end of the Edit dialogue of process_student.
EditWrite(w) == w.any /\ {"menu", "grade", "comment"} \subseteq w.prompts

\* C15 (Edit action): the write that ends an Edit carries the oracle's grade
\* or a numeric input as the grade and, as the comment, the oracle's comment,
\* no comment (':q') or the typed text; and for a student the operator
\* edited, that write is the only one of the run: no other write is made for
\* the student afterwards (stated for the assignment the run was started
\* for, and for students listed once).
C15_EditAction ==
  /\ EditWrite(last_write) =>
       /\ last_write.posted_grade
            \in ({last_write.oracle_grade}
                   \cup {Float(Strip(t)) : t \in GradeInputs}) \ {ValueError}
       /\ last_write.comment
            \in {Payload(last_write.posted_grade,
                         CommentOverride(Strip(t), last_write.oracle_comment)).comment :
                   t \in CommentInputs}
  /\ assignment # 0 =>
       \A u \in StudentIds :
         (ListedOnce(u) /\ outcome[u] = "edit") =>
           /\ RunWrites(u) <= 1
           /\ (RunWrite /\ last_write.user = u) => EditWrite(last_write)

\* A step of the interactive flow that does not end the student: the menu
\* shown again after an unknown choice, the grade prompt shown again after a
\* non-numeric input, the menu shown again after a declined Manual.
NonTerminalStep ==
  \/ pc = "menu" /\ pc' = "menu"
  \/ pc = "grade_in" /\ pc' = "grade_in"
  \/ pc = "continue" /\ pc' = "menu"

\* C16 (non-terminal inputs have no side effects): "Unknown choice" is
\* followed by the menu and "Invalid grade" by the grade prompt, and a step
\* that shows the menu or the grade prompt again leaves the pending grade,
\* the pending comment, the oracle's result, the LMS, the write counts and
\* the current student as they were and makes no write.
C16_NonTerminalNoSideEffects ==
  /\ [](out = "Unknown choice" => pc = "menu")
  /\ [](out = "Invalid grade" => pc \in {"grade_in", "tail_grade_in"})
  /\ [][NonTerminalStep =>
          /\ UNCHANGED << grade, comment, result, lms, writes, idx,
                          students_to_process, assignment >>
          /\ ~last_write'.any]_vars

\* C16 witness: the operator chose Manual and declined, chose Edit and typed
\* a non-numeric grade; the grade prompt is shown again with the oracle's
\* result still pending.
C16_Witness ==
  /\ pc = "grade_in"
  /\ out = "Invalid grade"
  /\ "continue" \in prompts
  /\ grade = result.grade
  /\ comment = result.comment
  /\ writes[assignment][user] = 0

\* ask_model calls made for u's submission to the assignment the run was
\* started for.
RunOracleCalls(u) == oracle_calls[task_num][u]

\* C17 (at most one oracle call per student per run): for a student listed
\* once, the oracle is called at most once in the run, and not at all for a
\* student process_student skipped (stated for the assignment the run was
\* started for).
C17_OneOracleCall ==
  assignment # 0 =>
    \A u \in StudentIds :
      ListedOnce(u) =>
        /\ RunOracleCalls(u) <= 1
        /\ outcome[u] \in {"skip_graded", "skip_empty"} => RunOracleCalls(u) = 0

\* A step in which main() selects the assignment.
SelectionStep ==
  pc \in {"choose", "task_prompt"} /\ pc' \in {"build", "tail_build"}

\* A step in which main() resolves the roster.
ResolutionStep ==
  pc \in {"build", "tail_build"} /\ pc' \in {"loop", "tail_loop"}

\* C18 (sequential in-order processing with a single resolution): once a
\* student's submission to the assignment the run was started for has been
\* fetched, the assignment is not selected and
\* the roster is not resolved again, and the position in the resolved list
\* never moves back to an earlier entry.
C18_SequentialSingleResolution ==
  [][/\ (assignment # 0 /\ \E u \in StudentIds : lms[task_num][u].read)
          => ~(SelectionStep \/ ResolutionStep)
     /\ idx' >= idx]_vars

\* C19 (oracle response parsing): a JSON response with no grade field, or
\* with the grade "abc", raises: no result is produced, main() ends with the
\* error and so asks nothing and writes nothing for that student; a response
\* with the grade "4" and no comment field produces the result 4.0 with the
\* empty string as its comment.
C19_OracleResponseParsing ==
  last_response.kind = "json" =>
    /\ (last_response.grade = Absent \/ last_response.grade = "abc")
         => /\ pc = "halted"
            /\ halt = "exception in ask_model"
            /\ out = (IF last_response.grade = Absent THEN "KeyError"
                      ELSE "ValueError")
            /\ result = NoResult
            /\ grade = NoneV
            /\ prompts = {}
            /\ ~last_write.any
    /\ (last_response.grade = "4" /\ last_response.comment = Absent)
         => /\ pc \in {"decide", "tail_decide"}
            /\ ~result.raised
            /\ result.grade = "4.0"
            /\ result.comment = ""
            /\ comment = ""

\* C19 witness: process_student got the response {"grade": "4"} and holds
\* the result 4.0 with an empty comment.
C19_Witness ==
  /\ pc = "decide"
  /\ last_response = [kind |-> "json", grade |-> "4", comment |-> Absent]
  /\ result.comment = ""

\* The reprs of the finite floats of the model.
FiniteGrades == {"3.0", "4.0"}

\* C20 (every write carries a concrete finite grade): the posted_grade of
\* every submission.edit call is a finite number, never NaN, never a
\* non-numeric text and never absent.
C20_FiniteGradeWritten ==
  RunWrite => last_write.posted_grade \in FiniteGrades

\* C21 (only students are resolved): every entry of the resolved list is a
\* student of the course, with and without an explicit name list, and no
\* submission of another participant is fetched, sent to the oracle or
\* written to.
C21_OnlyStudentsResolved ==
  /\ \A k \in DOMAIN students_to_process : students_to_process[k] \in StudentIds
  /\ \A a \in Assignments : \A u \in UserIds \ StudentIds :
       /\ ~lms[a][u].read
       /\ oracle_calls[a][u] = 0
       /\ writes[a][u] = 0

=============================================================================
